---- MODULE Spec2Model ----
(***************************************************************************)
(* A model of crc64fast: the Digest facade (src/lib.rs), the dispatcher    *)
(* and the 128-byte folding update (src/pclmulqdq/mod.rs), the SIMD lane   *)
(* backends (src/pclmulqdq/x86.rs, aarch64.rs, arch.rs), the table         *)
(* builder (build_table.rs) and the slice-by-16 table update.              *)
(*                                                                         *)
(* Representation.  A u8 is an integer in 0..255.  A u64 is the tuple of   *)
(* its 8 bytes, least significant byte first; a 128-bit lane is the tuple  *)
(* of its 16 bytes, least significant first, which is also the order of    *)
(* the bytes in memory on the little-endian targets the crate supports.    *)
(* All arithmetic is therefore exact at the width of the source.           *)
(***************************************************************************)
EXTENDS Integers, Sequences, FiniteSets, TLC

----------------------------------------------------------------------------
(* Bytes and bitwise operations on them *)

Byte == 0..255

\* TRUE, once v has been computed: what follows it then uses the value of v
\* (operator arguments are otherwise computed on first use)
Done(v) == v = v

BitOf(a, i) == (a \div (2^i)) % 2

Nibble == 0..15

RECURSIVE XorBits(_, _, _)
XorBits(a, b, i) ==
    IF i = 4 THEN 0
    ELSE (((BitOf(a, i) + BitOf(b, i)) % 2) * (2^i)) + XorBits(a, b, i + 1)

\* a ^ b on 4-bit values, tabulated once
XorNibble == [a \in Nibble |-> [b \in Nibble |-> XorBits(a, b, 0)]]

\* a ^ b on u8, tabulated once
XorTab ==
    [a \in Byte |-> [b \in Byte |->
        (16 * XorNibble[a \div 16][b \div 16]) + XorNibble[a % 16][b % 16]]]

XorByte(a, b) == XorTab[a][b]

RECURSIVE RevBits(_, _)
RevBits(a, i) ==
    IF i = 8 THEN 0 ELSE (BitOf(a, i) * (2^(7 - i))) + RevBits(a, i + 1)

\* u8::reverse_bits
RevTab == [a \in Byte |-> RevBits(a, 0)]

----------------------------------------------------------------------------
(* u64 as 8 little-endian bytes *)

\* a u64 literal written as four 16-bit groups, most significant first
U64(h3, h2, h1, h0) ==
    << h0 % 256, h0 \div 256, h1 % 256, h1 \div 256,
       h2 % 256, h2 \div 256, h3 % 256, h3 \div 256 >>

Zero64 == <<0, 0, 0, 0, 0, 0, 0, 0>>

\* u64::from(b)
FromByte(b) == <<b, 0, 0, 0, 0, 0, 0, 0>>

Xor64(x, y) ==
    << XorByte(x[1], y[1]), XorByte(x[2], y[2]), XorByte(x[3], y[3]),
       XorByte(x[4], y[4]), XorByte(x[5], y[5]), XorByte(x[6], y[6]),
       XorByte(x[7], y[7]), XorByte(x[8], y[8]) >>

\* !x
Not64(x) ==
    << 255 - x[1], 255 - x[2], 255 - x[3], 255 - x[4],
       255 - x[5], 255 - x[6], 255 - x[7], 255 - x[8] >>

\* x << 1 on u64 (the top bit is shifted out)
Shl1(x) ==
    << (2 * x[1]) % 256,
       ((2 * x[2]) % 256) + (x[1] \div 128), ((2 * x[3]) % 256) + (x[2] \div 128),
       ((2 * x[4]) % 256) + (x[3] \div 128), ((2 * x[5]) % 256) + (x[4] \div 128),
       ((2 * x[6]) % 256) + (x[5] \div 128), ((2 * x[7]) % 256) + (x[6] \div 128),
       ((2 * x[8]) % 256) + (x[7] \div 128) >>

\* x >> 1 on u64
Shr1(x) ==
    << (x[1] \div 2) + 128 * (x[2] % 2), (x[2] \div 2) + 128 * (x[3] % 2),
       (x[3] \div 2) + 128 * (x[4] % 2), (x[4] \div 2) + 128 * (x[5] % 2),
       (x[5] \div 2) + 128 * (x[6] % 2), (x[6] \div 2) + 128 * (x[7] % 2),
       (x[7] \div 2) + 128 * (x[8] % 2), x[8] \div 2 >>

\* x >> 8 on u64
Shr8(x) == << x[2], x[3], x[4], x[5], x[6], x[7], x[8], 0 >>

\* u64::reverse_bits
ReverseBits64(x) ==
    << RevTab[x[8]], RevTab[x[7]], RevTab[x[6]], RevTab[x[5]],
       RevTab[x[4]], RevTab[x[3]], RevTab[x[2]], RevTab[x[1]] >>

----------------------------------------------------------------------------
(* The table builder, build_table.rs *)

\* build_table.rs: POLY, the generator in normal form
BUILD_POLY == U64(17136, 57835, 43498, 13971)   \* 0x42F0_E1EB_A9EA_3693

\* a step that tests the lowest bit in place of the highest
long_div_step_low_bit(m) ==
    IF m[1] % 2 # 0 THEN Xor64(Shl1(m), BUILD_POLY) ELSE Shl1(m)

long_div_step(m) ==
    IF m[8] \div 128 # 0 THEN Xor64(Shl1(m), BUILD_POLY) ELSE Shl1(m)

RECURSIVE long_div_steps(_, _)
long_div_steps(value, count) ==
    \* for _ in 0..count { value = long_div_step(value) }
    IF count = 0 THEN value
    ELSE IF count = 1 THEN long_div_step(value)
    ELSE LET half == long_div_steps(value, count \div 2)
         IN  IF Done(half) THEN long_div_steps(half, count - count \div 2) ELSE half

\* the entry with count = table_id * 8
build_table_entry_short(table_id, i) ==
    LET count == table_id * 8
        byte == RevTab[i]
        value == <<0, 0, 0, 0, 0, 0, 0, byte>>
    IN  ReverseBits64(long_div_steps(value, count))

\* main: the entry of TABLE_<table_id> for the byte i
build_table_entry(table_id, i) ==
    LET count == table_id * 8 + 8
        byte == RevTab[i]
        value == <<0, 0, 0, 0, 0, 0, 0, byte>>     \* u64::from(byte) << 56
    IN  ReverseBits64(long_div_steps(value, count))

\* The value of main's loop for the byte i after the count = table_id * 8 + 8
\* steps of TABLE_<table_id>, all sixteen at once: the first table_id * 8 steps
\* of the loop are the loop for table_id - 1.
RECURSIVE build_values(_, _)
build_values(i, table_id) ==
    IF table_id = 0
    THEN << long_div_steps(<<0, 0, 0, 0, 0, 0, 0, RevTab[i]>>, 8) >>
    ELSE LET before == build_values(i, table_id - 1)
         IN  IF Done(before)
             THEN Append(before, long_div_steps(before[table_id], 8))
             ELSE before

BuiltValues == [i \in Byte |-> build_values(i, 15)]

\* the tables numbered from the other end: TABLE_0 with the entries of 128 steps
TABLE_misnumbered ==
    [j \in 0..15 |-> [b \in Byte |-> ReverseBits64(BuiltValues[b][16 - j])]]

\* the sixteen generated tables TABLE_0 .. TABLE_15 of table.rs
TABLE == [j \in 0..15 |-> [b \in Byte |-> ReverseBits64(BuiltValues[b][j + 1])]]

----------------------------------------------------------------------------
(* Constants of the folding algorithm (bit-reversed form) *)

POLY   == U64(37592, 44843, 44814, 7813)    \* 0x92d8_af2b_af0e_1e85
MU     == U64(39998, 18028, 5929, 25557)    \* 0x9c3e_466c_1729_63d5
K_127  == U64(55998, 38319, 51079, 24384)   \* 0xdabe_95af_c787_5f40
K_191  == U64(57437, 54423, 51769, 15076)   \* 0xe05d_d497_ca39_3ae4
K_255  == U64(15334, 21411, 4065, 44881)    \* 0x3be6_53a3_0fe1_af51
K_319  == U64(24585, 23296, 35486, 64068)   \* 0x6009_5b00_8a9e_fa44
K_383  == U64(27043, 23953, 50035, 596)     \* 0x69a3_5d91_c373_0254
K_447  == U64(46570, 6905, 49171, 44196)    \* 0xb5ea_1af9_c013_aca4
K_511  == U64(2079, 24660, 42884, 11764)    \* 0x081f_6054_a784_2df4
K_575  == U64(27363, 61371, 40404, 16883)   \* 0x6ae3_efbb_9dd4_41f3
K_639  == U64(3633, 54553, 16922, 25509)    \* 0x0e31_d519_421a_63a5
K_703  == U64(11824, 8242, 4810, 49957)     \* 0x2e30_2032_12ca_c325
K_767  == U64(58574, 11477, 24554, 55)      \* 0xe4ce_2cd5_5fea_0037
K_831  == U64(12259, 64809, 8398, 33516)    \* 0x2fe3_fd29_20ce_82ec
K_895  == U64(38008, 29918, 22864, 21195)   \* 0x9478_74de_5950_52cb
K_959  == U64(40563, 23733, 39751, 9434)    \* 0x9e73_5cb5_9b47_24da
K_1023 == U64(55256, 27434, 63293, 59200)   \* 0xd7d8_6b2a_f73d_e740
K_1087 == U64(34647, 55069, 20428, 4096)    \* 0x8757_d71d_4fcc_1000

----------------------------------------------------------------------------
(* The slice-by-16 table update, table::update *)

\* state = (state >> 8) ^ TABLE_0[(state ^ b) & 0xFF]
table_byte_step(state, b) ==
    Xor64(Shr8(state), TABLE[0][XorByte(state[1], b)])

\* one 16-byte block, bytes[at + 1 .. at + 16]: the XOR of the entries for its
\* first n bytes, byte k looked up in TABLE_(16 - k), the first eight bytes
\* XORed with the bytes of the state
RECURSIVE table_block_sum(_, _, _, _)
table_block_sum(state, bytes, at, n) ==
    IF n = 0 THEN Zero64
    ELSE LET before == table_block_sum(state, bytes, at, n - 1)
             index  == IF n <= 8 THEN XorByte(bytes[at + n], state[n]) ELSE bytes[at + n]
         IN  IF Done(before) THEN Xor64(before, TABLE[16 - n][index]) ELSE before

table_block_step(state, bytes, at) == table_block_sum(state, bytes, at, 16)

\* the blocks number lo .. hi - 1 of bytes[from + 1 ..], in order
RECURSIVE table_blocks(_, _, _, _, _)
table_blocks(state, bytes, from, lo, hi) ==
    IF lo >= hi THEN state
    ELSE IF lo + 1 = hi THEN table_block_step(state, bytes, from + 16 * lo)
    ELSE LET mid  == (lo + hi) \div 2
             half == table_blocks(state, bytes, from, lo, mid)
         IN  IF Done(half) THEN table_blocks(half, bytes, from, mid, hi) ELSE half

\* the single bytes bytes[lo + 1 .. hi], in order
RECURSIVE table_bytes(_, _, _, _)
table_bytes(state, bytes, lo, hi) ==
    IF lo >= hi THEN state
    ELSE IF lo + 1 = hi THEN table_byte_step(state, bytes[hi])
    ELSE LET mid  == (lo + hi) \div 2
             half == table_bytes(state, bytes, lo, mid)
         IN  IF Done(half) THEN table_bytes(half, bytes, mid, hi) ELSE half

\* table::update over bytes[from + 1 .. to]
table_update_range(state, bytes, from, to) ==
    LET blocks == (to - from) \div 16
        whole  == table_blocks(state, bytes, from, 0, blocks)
    IN  IF Done(whole) THEN table_bytes(whole, bytes, from + 16 * blocks, to) ELSE whole

\* table::update(state, bytes)
table_update(state, bytes) == table_update_range(state, bytes, 0, Len(bytes))

----------------------------------------------------------------------------
(* 128-bit lanes as 16 little-endian bytes *)

Low64(x)  == << x[1], x[2], x[3], x[4], x[5], x[6], x[7], x[8] >>
High64(x) == << x[9], x[10], x[11], x[12], x[13], x[14], x[15], x[16] >>

Xor128(x, y) ==
    << XorByte(x[1], y[1]), XorByte(x[2], y[2]), XorByte(x[3], y[3]),
       XorByte(x[4], y[4]), XorByte(x[5], y[5]), XorByte(x[6], y[6]),
       XorByte(x[7], y[7]), XorByte(x[8], y[8]), XorByte(x[9], y[9]),
       XorByte(x[10], y[10]), XorByte(x[11], y[11]), XorByte(x[12], y[12]),
       XorByte(x[13], y[13]), XorByte(x[14], y[14]), XorByte(x[15], y[15]),
       XorByte(x[16], y[16]) >>

\* the lane at bytes[at + 1 .. at + 16] of a slice (an aligned 16-byte load)
LoadLane(bytes, at) ==
    << bytes[at + 1], bytes[at + 2], bytes[at + 3], bytes[at + 4],
       bytes[at + 5], bytes[at + 6], bytes[at + 7], bytes[at + 8],
       bytes[at + 9], bytes[at + 10], bytes[at + 11], bytes[at + 12],
       bytes[at + 13], bytes[at + 14], bytes[at + 15], bytes[at + 16] >>

\* x ^ y on 16-bit values
XorWide(x, y) ==
    (256 * XorByte(x \div 256, y \div 256)) + XorByte(x % 256, y % 256)

RECURSIVE ClmulBits(_, _, _)
ClmulBits(a, b, i) ==
    IF i = 4 THEN 0
    ELSE IF BitOf(a, i) = 1 THEN XorWide(b * (2^i), ClmulBits(a, b, i + 1))
    ELSE ClmulBits(a, b, i + 1)

\* carry-less product of two 4-bit values, a 7-bit value
ClmulNibble == [a \in Nibble |-> [b \in Nibble |-> ClmulBits(a, b, 0)]]

\* carry-less product of two bytes, a 15-bit value, tabulated once:
\* (a1 x^4 + a0)(b1 x^4 + b0) = a1 b1 x^8 + (a1 b0 + a0 b1) x^4 + a0 b0
ClmulTab ==
    [a \in Byte |-> [b \in Byte |->
        XorWide(XorWide(256 * ClmulNibble[a \div 16][b \div 16],
                        ClmulNibble[a % 16][b % 16]),
                16 * XorWide(ClmulNibble[a \div 16][b % 16],
                             ClmulNibble[a % 16][b \div 16]))]]

\* the 72-bit product of a byte and the u64 b, as 9 bytes; t is the row of
\* ClmulTab for the byte
ClmulRowOf(t, b) ==
    << t[b[1]] % 256,
       XorByte(t[b[1]] \div 256, t[b[2]] % 256),
       XorByte(t[b[2]] \div 256, t[b[3]] % 256),
       XorByte(t[b[3]] \div 256, t[b[4]] % 256),
       XorByte(t[b[4]] \div 256, t[b[5]] % 256),
       XorByte(t[b[5]] \div 256, t[b[6]] % 256),
       XorByte(t[b[6]] \div 256, t[b[7]] % 256),
       XorByte(t[b[7]] \div 256, t[b[8]] % 256),
       t[b[8]] \div 256 >>

\* the 72-bit product of the byte c and the u64 b
ClmulRow(c, b) == ClmulRowOf(ClmulTab[c], b)

RowByte(row, k) == IF k >= 1 /\ k <= 9 THEN row[k] ELSE 0

\* acc ^ (row << (8 * q)), acc a 128-bit value and row a 72-bit one
XorRowAt(acc, row, q) ==
    << XorByte(acc[1], RowByte(row, 1 - q)),   XorByte(acc[2], RowByte(row, 2 - q)),
       XorByte(acc[3], RowByte(row, 3 - q)),   XorByte(acc[4], RowByte(row, 4 - q)),
       XorByte(acc[5], RowByte(row, 5 - q)),   XorByte(acc[6], RowByte(row, 6 - q)),
       XorByte(acc[7], RowByte(row, 7 - q)),   XorByte(acc[8], RowByte(row, 8 - q)),
       XorByte(acc[9], RowByte(row, 9 - q)),   XorByte(acc[10], RowByte(row, 10 - q)),
       XorByte(acc[11], RowByte(row, 11 - q)), XorByte(acc[12], RowByte(row, 12 - q)),
       XorByte(acc[13], RowByte(row, 13 - q)), XorByte(acc[14], RowByte(row, 14 - q)),
       XorByte(acc[15], RowByte(row, 15 - q)), XorByte(acc[16], RowByte(row, 16 - q)) >>

\* the sum of the products of the bytes 1 .. n of a with b, the product of byte i
\* shifted left by i - 1 bytes
RECURSIVE ClmulAcc(_, _, _)
ClmulAcc(a, b, n) ==
    IF n = 0 THEN Zero64 \o Zero64
    ELSE LET acc == ClmulAcc(a, b, n - 1)
             row == ClmulRow(a[n], b)
         IN  IF Done(acc) /\ Done(row) THEN XorRowAt(acc, row, n - 1) ELSE acc

\* the 64 x 64 -> 128 bit carry-less multiplication of the PCLMULQDQ and PMULL
\* instructions
Clmul64(a, b) == ClmulAcc(a, b, 8)

----------------------------------------------------------------------------
(* The x86 / x86_64 lane, src/pclmulqdq/x86.rs *)

\* _mm_set_epi64x(e1, e0)
mm_set_epi64x(e1, e0) == e0 \o e1

\* _mm_xor_si128
mm_xor_si128(a, b) == Xor128(a, b)

\* _mm_clmulepi64_si128: imm8 bit 0 selects the quadword of a, bit 4 that of b
mm_clmulepi64_si128(a, b, imm8) ==
    Clmul64(IF imm8 % 2 = 1 THEN High64(a) ELSE Low64(a),
            IF (imm8 \div 16) % 2 = 1 THEN High64(b) ELSE Low64(b))

ByteOrZero(a, k) == IF k >= 1 /\ k <= 16 THEN a[k] ELSE 0

\* _mm_srli_si128: shift right by imm8 bytes
mm_srli_si128(a, imm8) ==
    << ByteOrZero(a, 1 + imm8), ByteOrZero(a, 2 + imm8), ByteOrZero(a, 3 + imm8),
       ByteOrZero(a, 4 + imm8), ByteOrZero(a, 5 + imm8), ByteOrZero(a, 6 + imm8),
       ByteOrZero(a, 7 + imm8), ByteOrZero(a, 8 + imm8), ByteOrZero(a, 9 + imm8),
       ByteOrZero(a, 10 + imm8), ByteOrZero(a, 11 + imm8), ByteOrZero(a, 12 + imm8),
       ByteOrZero(a, 13 + imm8), ByteOrZero(a, 14 + imm8), ByteOrZero(a, 15 + imm8),
       ByteOrZero(a, 16 + imm8) >>

\* _mm_slli_si128: shift left by imm8 bytes
mm_slli_si128(a, imm8) ==
    << ByteOrZero(a, 1 - imm8), ByteOrZero(a, 2 - imm8), ByteOrZero(a, 3 - imm8),
       ByteOrZero(a, 4 - imm8), ByteOrZero(a, 5 - imm8), ByteOrZero(a, 6 - imm8),
       ByteOrZero(a, 7 - imm8), ByteOrZero(a, 8 - imm8), ByteOrZero(a, 9 - imm8),
       ByteOrZero(a, 10 - imm8), ByteOrZero(a, 11 - imm8), ByteOrZero(a, 12 - imm8),
       ByteOrZero(a, 13 - imm8), ByteOrZero(a, 14 - imm8), ByteOrZero(a, 15 - imm8),
       ByteOrZero(a, 16 - imm8) >>

\* _mm_extract_epi64
mm_extract_epi64(a, imm8) == IF imm8 = 1 THEN High64(a) ELSE Low64(a)

x86_new(high, low) == mm_set_epi64x(high, low)

x86_bitxor(self, other) == mm_xor_si128(self, other)

x86_fold_16(self, coeff) ==
    LET h == mm_clmulepi64_si128(self, coeff, 17)     \* 0x11
        l == mm_clmulepi64_si128(self, coeff, 0)      \* 0x00
    IN  x86_bitxor(h, l)

\* fold_8 with the upper half moved by a shift to the left
x86_fold_8_shift_left(self, coeff) ==
    LET c == x86_new(Zero64, coeff)
        h == mm_clmulepi64_si128(self, c, 0)
        l == mm_slli_si128(self, 8)
    IN  x86_bitxor(h, l)

x86_fold_8(self, coeff) ==
    LET c == x86_new(Zero64, coeff)
        h == mm_clmulepi64_si128(self, c, 0)          \* 0x00
        l == mm_srli_si128(self, 8)
    IN  x86_bitxor(h, l)

\* barrett with the second product taken with the low quadword of polymu
x86_barrett_low(self, poly, mu) ==
    LET polymu  == x86_new(poly, mu)
        t1      == mm_clmulepi64_si128(self, polymu, 0)
        h       == mm_slli_si128(t1, 8)
        l       == mm_clmulepi64_si128(t1, polymu, 0)
        reduced == x86_bitxor(x86_bitxor(h, l), self)
    IN  mm_extract_epi64(reduced, 1)

x86_barrett(self, poly, mu) ==
    LET polymu  == x86_new(poly, mu)
        t1      == mm_clmulepi64_si128(self, polymu, 0)    \* 0x00
        h       == mm_slli_si128(t1, 8)
        l       == mm_clmulepi64_si128(t1, polymu, 16)     \* 0x10
        reduced == x86_bitxor(x86_bitxor(h, l), self)
    IN  mm_extract_epi64(reduced, 1)

----------------------------------------------------------------------------
(* The portable lane, src/pclmulqdq/arch.rs: Simd(u128) *)

\* byte k (1-based) of x << (8 * q + r), x a u128
ShlByteAt(x, k, q, r) ==
    (((ByteOrZero(x, k - q) * (2^r)) % 256)
        + (ByteOrZero(x, k - q - 1) \div (2^(8 - r))))

\* x << i on u128, 0 <= i < 128
Shl128(x, i) ==
    LET q == i \div 8
        r == i % 8
    IN  << ShlByteAt(x, 1, q, r), ShlByteAt(x, 2, q, r), ShlByteAt(x, 3, q, r),
        ShlByteAt(x, 4, q, r), ShlByteAt(x, 5, q, r), ShlByteAt(x, 6, q, r),
        ShlByteAt(x, 7, q, r), ShlByteAt(x, 8, q, r), ShlByteAt(x, 9, q, r),
        ShlByteAt(x, 10, q, r), ShlByteAt(x, 11, q, r), ShlByteAt(x, 12, q, r),
        ShlByteAt(x, 13, q, r), ShlByteAt(x, 14, q, r), ShlByteAt(x, 15, q, r),
        ShlByteAt(x, 16, q, r) >>

Zero128 == Zero64 \o Zero64

\* the iterations lo .. hi - 1 of the loop of poly_mul, applied to res
RECURSIVE poly_mul_range(_, _, _, _, _)
poly_mul_range(res, a, b, lo, hi) ==
    IF lo >= hi THEN res
    ELSE IF lo + 1 = hi
         THEN IF BitOf(a[(lo \div 8) + 1], lo % 8) # 0
              THEN Xor128(res, Shl128(b \o Zero64, lo))
              ELSE res
    ELSE LET mid  == (lo + hi) \div 2
             half == poly_mul_range(res, a, b, lo, mid)
         IN  IF Done(half) THEN poly_mul_range(half, a, b, mid, hi) ELSE half

poly_mul(a, b) == poly_mul_range(Zero128, a, b, 0, 64)

arch_new(high, low) == low \o high

arch_bitxor(self, other) == Xor128(self, other)

\* fold_16 with the products taken crosswise
arch_fold_16_crossed(self, coeff) ==
    LET h == poly_mul(Low64(coeff), High64(self))
        l == poly_mul(High64(coeff), Low64(self))
    IN  Xor128(h, l)

arch_fold_16(self, coeff) ==
    LET h == poly_mul(Low64(coeff), Low64(self))
        l == poly_mul(High64(coeff), High64(self))
    IN  Xor128(h, l)

arch_fold_8(self, coeff) ==
    LET h == poly_mul(coeff, Low64(self))
        l == High64(self) \o Zero64          \* self.0 >> 64
    IN  Xor128(h, l)

arch_barrett(self, poly, mu) ==
    LET t1      == poly_mul(Low64(self), mu)
        h       == Zero64 \o Low64(t1)       \* t1 << 64
        l       == poly_mul(Low64(t1), poly)
        reduced == Xor128(Xor128(self, h), l)
    IN  High64(reduced)                      \* (reduced >> 64) as u64

----------------------------------------------------------------------------
(* The AArch64 lane, src/pclmulqdq/aarch64.rs: Simd(uint8x16_t) *)

\* vmull_p64, the PMULL instruction on the 64-bit operands a and b
vmull_p64(a, b) == Clmul64(a, b)

\* vgetq_lane_p64(x, idx)
vgetq_lane_p64(x, idx) == IF idx = 0 THEN Low64(x) ELSE High64(x)

\* vcombine_u8(low, high)
vcombine_u8(low, high) == low \o high

\* veorq_u8
veorq_u8(a, b) == Xor128(a, b)

\* PMULL Vd.1q, Vn.1d, Vm.1d: the product of the lower doublewords
pmull(n, m) == Clmul64(Low64(n), Low64(m))

\* PMULL2 Vd.1q, Vn.2d, Vm.2d: the product of the upper doublewords
pmull2(n, m) == Clmul64(High64(n), High64(m))

aarch64_from_mul(a, b) == vmull_p64(a, b)

aarch64_into_poly64s(self) == << vgetq_lane_p64(self, 0), vgetq_lane_p64(self, 1) >>

aarch64_high_64(self) == vgetq_lane_p64(self, 1)

aarch64_low_64(self) == vgetq_lane_p64(self, 0)

aarch64_new(high, low) == vcombine_u8(low, high)

aarch64_bitxor(self, other) == veorq_u8(self, other)

\* fold_16 as built with cfg(slow)
aarch64_fold_16_slow(self, coeff) ==
    LET x == aarch64_into_poly64s(self)
        c == aarch64_into_poly64s(coeff)
        h == aarch64_from_mul(c[1], x[1])
        l == aarch64_from_mul(c[2], x[2])
    IN  aarch64_bitxor(h, l)

\* fold_16 as built with cfg(not(slow)): the asm! block
aarch64_fold_16(self, coeff) ==
    LET l == pmull(self, coeff)         \* pmull $0.1q, $2.1d, $3.1d
        h == pmull2(self, coeff)        \* pmull2 $1.1q, $2.2d, $3.2d
    IN  aarch64_bitxor(h, l)

aarch64_fold_8(self, coeff) ==
    LET x == aarch64_into_poly64s(self)
        h == aarch64_from_mul(coeff, x[1])
        l == aarch64_new(Zero64, x[2])
    IN  aarch64_bitxor(h, l)

\* barrett without the `^ t1.0`
aarch64_barrett_without_t1(self, poly, mu) ==
    LET t1 == aarch64_low_64(aarch64_from_mul(aarch64_low_64(self), mu))
        l  == aarch64_from_mul(t1, poly)
    IN  aarch64_high_64(aarch64_bitxor(self, l))

aarch64_barrett(self, poly, mu) ==
    LET t1 == aarch64_low_64(aarch64_from_mul(aarch64_low_64(self), mu))
        l  == aarch64_from_mul(t1, poly)
    IN  Xor64(aarch64_high_64(aarch64_bitxor(self, l)), t1)

----------------------------------------------------------------------------
(* arch::Simd as selected at compile time, src/pclmulqdq/mod.rs lines 10-18 *)

Simd_new(be, high, low) ==
    IF be = "x86" THEN x86_new(high, low)
    ELSE IF be = "aarch64" THEN aarch64_new(high, low)
    ELSE arch_new(high, low)

Simd_bitxor(be, a, b) ==
    IF be = "x86" THEN x86_bitxor(a, b)
    ELSE IF be = "aarch64" THEN aarch64_bitxor(a, b)
    ELSE arch_bitxor(a, b)

fold_16(be, self, coeff) ==
    IF be = "x86" THEN x86_fold_16(self, coeff)
    ELSE IF be = "aarch64" THEN aarch64_fold_16(self, coeff)
    ELSE arch_fold_16(self, coeff)

fold_8(be, self, coeff) ==
    IF be = "x86" THEN x86_fold_8(self, coeff)
    ELSE IF be = "aarch64" THEN aarch64_fold_8(self, coeff)
    ELSE arch_fold_8(self, coeff)

barrett(be, self, poly, mu) ==
    IF be = "x86" THEN x86_barrett(self, poly, mu)
    ELSE IF be = "aarch64" THEN aarch64_barrett(self, poly, mu)
    ELSE arch_barrett(self, poly, mu)

----------------------------------------------------------------------------
(* The 128-byte folding update, src/pclmulqdq/mod.rs *)

\* the [Simd; 8] at bytes[at + 1 .. at + 128]
LoadChunk(bytes, at) ==
    << LoadLane(bytes, at),      LoadLane(bytes, at + 16),
       LoadLane(bytes, at + 32), LoadLane(bytes, at + 48),
       LoadLane(bytes, at + 64), LoadLane(bytes, at + 80),
       LoadLane(bytes, at + 96), LoadLane(bytes, at + 112) >>

\* the coefficient of the folding loop with its two halves exchanged
fold_coeff_exchanged(be) == Simd_new(be, K_1087, K_1023)

\* the coefficient of the 128-byte folding loop (line 104)
fold_coeff(be) == Simd_new(be, K_1023, K_1087)

\* for (xi, yi) in x.iter_mut().zip(chunk.iter()) { *xi = *yi ^ xi.fold_16(coeff) }:
\* the first n lanes afterwards
RECURSIVE fold_lanes(_, _, _, _)
fold_lanes(be, x, chunk, n) ==
    IF n = 0 THEN << >>
    ELSE LET before == fold_lanes(be, x, chunk, n - 1)
             lane   == Simd_bitxor(be, chunk[n], fold_16(be, x[n], fold_coeff(be)))
         IN  IF Done(before) /\ Done(lane) THEN Append(before, lane) ELSE before

\* a loop that leaves the last lane as it was
fold_chunk_without_last_lane(be, x, chunk) == Append(fold_lanes(be, x, chunk, 7), x[8])

fold_chunk(be, x, chunk) == fold_lanes(be, x, chunk, 8)

\* for chunk in rest: the chunks number lo .. hi - 1 of rest, rest = bytes[from + 1 ..]
RECURSIVE fold_rest(_, _, _, _, _, _)
fold_rest(be, x, bytes, from, lo, hi) ==
    IF lo >= hi THEN x
    ELSE IF lo + 1 = hi THEN fold_chunk(be, x, LoadChunk(bytes, from + 128 * lo))
    ELSE LET mid  == (lo + hi) \div 2
             half == fold_rest(be, x, bytes, from, lo, mid)
         IN  IF Done(half) THEN fold_rest(be, half, bytes, from, mid, hi) ELSE half

\* the coefficients of the tail reduction with the halves of each exchanged
coeffs_exchanged(be) ==
    << Simd_new(be, K_959, K_895), Simd_new(be, K_831, K_767),
       Simd_new(be, K_703, K_639), Simd_new(be, K_575, K_511),
       Simd_new(be, K_447, K_383), Simd_new(be, K_319, K_255),
       Simd_new(be, K_191, K_127) >>

\* the seven coefficients of the tail reduction (lines 111-119)
coeffs(be) ==
    << Simd_new(be, K_895, K_959),    \* fold by distance of 112 bytes
       Simd_new(be, K_767, K_831),    \* fold by distance of 96 bytes
       Simd_new(be, K_639, K_703),    \* fold by distance of 80 bytes
       Simd_new(be, K_511, K_575),    \* fold by distance of 64 bytes
       Simd_new(be, K_383, K_447),    \* fold by distance of 48 bytes
       Simd_new(be, K_255, K_319),    \* fold by distance of 32 bytes
       Simd_new(be, K_127, K_191) >>  \* fold by distance of 16 bytes

\* x.iter().zip(&coeffs).fold(x[7], |acc, (m, c)| acc ^ m.fold_16(*c)), steps 1 .. n
RECURSIVE fold_tail(_, _, _)
fold_tail(be, x, n) ==
    IF n = 0 THEN x[8]
    ELSE LET acc == fold_tail(be, x, n - 1)
         IN  IF Done(acc) THEN Simd_bitxor(be, acc, fold_16(be, x[n], coeffs(be)[n])) ELSE acc

\* simd_lanes without `x[0] ^= Simd::new(0, state)`
simd_lanes_without_state(be, state, bytes, from, j) ==
    LET x0 == LoadChunk(bytes, from)
    IN  IF Done(x0) THEN fold_rest(be, x0, bytes, from + 128, 0, j) ELSE x0

\* the lanes after the first chunk and j chunks of rest
simd_lanes(be, state, bytes, from, j) ==
    LET first == LoadChunk(bytes, from)
        x0    == << Simd_bitxor(be, first[1], Simd_new(be, Zero64, state)),
                    first[2], first[3], first[4], first[5], first[6], first[7], first[8] >>
    IN  IF Done(x0) THEN fold_rest(be, x0, bytes, from + 128, 0, j) ELSE x0

\* the lanes reduced to the 64-bit state
simd_finish(be, x) ==
    LET acc == fold_tail(be, x, 7)
        r   == fold_8(be, acc, K_127)      \* finally fold 16 bytes into 8 bytes
    IN  IF Done(acc) /\ Done(r) THEN barrett(be, r, POLY, MU) ELSE Zero64

\* update_simd(state, first, rest): first = bytes[from + 1 .. from + 128],
\* rest the following chunks - 1 chunks of 128 bytes
update_simd(be, state, bytes, from, chunks) ==
    LET x == simd_lanes(be, state, bytes, from, chunks - 1)
    IN  IF Done(x) THEN simd_finish(be, x) ELSE state

\* Alignment of [Simd; 8] and its size (test_size_and_alignment)
SIMD_ALIGN == 16
CHUNK_SIZE == 128

\* a split that takes the distance from the boundary below as the length of left
align_to_below(addr, len) ==
    LET offset == addr % SIMD_ALIGN
    IN  IF offset > len
        THEN [left |-> len, middle |-> 0, right |-> 0]
        ELSE [left |-> offset,
              middle |-> (len - offset) \div CHUNK_SIZE,
              right |-> (len - offset) % CHUNK_SIZE]

\* bytes.align_to::<[Simd; 8]>() for a slice of len bytes at address addr:
\* the lengths of left and right and the number of chunks of middle
align_to(addr, len) ==
    LET offset == (SIMD_ALIGN - (addr % SIMD_ALIGN)) % SIMD_ALIGN
    IN  IF offset > len
        THEN [left |-> len, middle |-> 0, right |-> 0]
        ELSE [left |-> offset,
              middle |-> (len - offset) \div CHUNK_SIZE,
              right |-> (len - offset) % CHUNK_SIZE]

\* update_calls with the first chunk of middle taken to start the computation
\* anew: the bytes of left are not processed
update_calls_dropping_left(addr, len) ==
    LET s == align_to(addr, len)
    IN  IF s.middle > 0
        THEN << [fn |-> "simd", from |-> s.left, to |-> s.left + CHUNK_SIZE * s.middle],
                [fn |-> "table", from |-> s.left + CHUNK_SIZE * s.middle, to |-> len] >>
        ELSE << [fn |-> "table", from |-> 0, to |-> len] >>

\* The calls update makes, in order: which function consumes which bytes
\* (bytes[from + 1 .. to]).
update_calls(addr, len) ==
    LET s == align_to(addr, len)
    IN  IF s.middle > 0       \* if let Some((first, rest)) = middle.split_first()
        THEN << [fn |-> "table", from |-> 0, to |-> s.left],
                [fn |-> "simd", from |-> s.left, to |-> s.left + CHUNK_SIZE * s.middle],
                [fn |-> "table", from |-> s.left + CHUNK_SIZE * s.middle, to |-> len] >>
        ELSE << [fn |-> "table", from |-> 0, to |-> len] >>

run_call(be, state, bytes, c) ==
    IF c.fn = "simd"
    THEN update_simd(be, state, bytes, c.from, (c.to - c.from) \div CHUNK_SIZE)
    ELSE table_update_range(state, bytes, c.from, c.to)

RECURSIVE run_calls(_, _, _, _, _)
run_calls(be, state, bytes, calls, n) ==
    IF n = 0 THEN state
    ELSE LET before == run_calls(be, state, bytes, calls, n - 1)
         IN  IF Done(before) THEN run_call(be, before, bytes, calls[n]) ELSE before

\* pclmulqdq::update(state, bytes), the slice lying at address addr
update(be, state, bytes, addr) ==
    LET calls == update_calls(addr, Len(bytes))
    IN  run_calls(be, state, bytes, calls, Len(calls))

----------------------------------------------------------------------------
(* The reference: bit-at-a-time CRC-64-ECMA (CRC-64-XZ), reflected *)

AllOnes == Not64(Zero64)

\* the generator, reflected: 0xC96C_5795_D787_0F42
REF_POLY == ReverseBits64(BUILD_POLY)

ref_bit(c) == IF c[1] % 2 = 1 THEN Xor64(Shr1(c), REF_POLY) ELSE Shr1(c)

ref_byte(c, b) ==
    ref_bit(ref_bit(ref_bit(ref_bit(ref_bit(ref_bit(ref_bit(ref_bit(
        Xor64(c, FromByte(b))))))))))

RECURSIVE ref_range(_, _, _, _)
ref_range(c, bytes, lo, hi) ==
    IF lo >= hi THEN c
    ELSE IF lo + 1 = hi THEN ref_byte(c, bytes[hi])
    ELSE LET mid  == (lo + hi) \div 2
             half == ref_range(c, bytes, lo, mid)
         IN  IF Done(half) THEN ref_range(half, bytes, mid, hi) ELSE half

\* the register of the reference after bytes, started at init
crc_internal(bytes, init) == ref_range(init, bytes, 0, Len(bytes))

\* the final XOR with all-ones
ref_finish(reg) == Not64(reg)

\* the reference checksum: init all-ones, final XOR all-ones
checksum_ecma(bytes) == ref_finish(crc_internal(bytes, AllOnes))

----------------------------------------------------------------------------
(* The platform: what the crate was compiled for and what the CPU reports *)

X86_FEATURES == {"pclmulqdq", "sse2", "sse4.1"}
AARCH64_FEATURES == {"pmull", "neon"}

\* cfg(any(target_arch = "x86", target_arch = "x86_64"))
IsX86(arch) == arch \in {"x86", "x86_64"}

\* arch::Simd of the build: the module that `mod arch` resolves to
\* (src/pclmulqdq/mod.rs lines 10-16)
ArchModule(p) ==
    IF p.fake_simd THEN "arch.rs"
    ELSE IF IsX86(p.arch) THEN "x86.rs"
    ELSE IF p.arch = "aarch64" THEN "aarch64.rs"
    ELSE "arch.rs"

\* Simd::is_supported()
is_supported(p) ==
    IF ArchModule(p) = "x86.rs" THEN X86_FEATURES \subseteq p.features
    ELSE IF ArchModule(p) = "aarch64.rs" THEN AARCH64_FEATURES \subseteq p.features
    ELSE p.fake_simd                          \* cfg!(feature = "fake-simd")

\* the lane implementation update_simd runs on
Backend(p) ==
    IF ArchModule(p) = "x86.rs" THEN "x86"
    ELSE IF ArchModule(p) = "aarch64.rs" THEN "aarch64"
    ELSE "fake-simd"

\* The two values of UpdateFn
SIMD_UPDATE  == "pclmulqdq::update"
TABLE_UPDATE == "table::update"

\* pclmulqdq::get_update()
get_update(p) == IF is_supported(p) THEN SIMD_UPDATE ELSE TABLE_UPDATE

----------------------------------------------------------------------------
(* Digest, src/lib.rs *)

\* Digest::new() with `state: 0`
Digest_new_zero(p) ==
    [computer |-> IF IsX86(p.arch) THEN get_update(p) ELSE TABLE_UPDATE,
     state    |-> Zero64]

\* Digest::new(): mod pclmulqdq exists on x86 and x86_64 only (lines 21-22, 41-44)
Digest_new(p) ==
    [computer |-> IF IsX86(p.arch) THEN get_update(p) ELSE TABLE_UPDATE,
     state    |-> AllOnes]

\* Digest::new_table()
Digest_new_table == [computer |-> TABLE_UPDATE, state |-> AllOnes]

\* (self.computer)(self.state, bytes), the slice lying at address addr
call_computer(p, computer, state, bytes, addr) ==
    IF computer = SIMD_UPDATE
    THEN update(Backend(p), state, bytes, addr)
    ELSE table_update(state, bytes)

\* Digest::write that leaves the digest on the table update
Digest_write_rebinding(p, self, bytes, addr) ==
    [computer |-> TABLE_UPDATE,
     state    |-> call_computer(p, self.computer, self.state, bytes, addr)]

\* Digest::write: the digest afterwards
Digest_write(p, self, bytes, addr) ==
    [computer |-> self.computer,
     state    |-> call_computer(p, self.computer, self.state, bytes, addr)]

\* Digest::sum64
Digest_sum64(self) == Not64(self.state)

\* a clone that starts a computation of its own
Digest_clone_fresh(self) == [computer |-> self.computer, state |-> AllOnes]

\* #[derive(Clone)]
Digest_clone(self) == [computer |-> self.computer, state |-> self.state]

----------------------------------------------------------------------------
(* State *)

VARIABLES
    platform,   \* the build target and the features the CPU reports
    digests,    \* the live Digest values, by slot
    made,       \* per live digest, how it was created: [by, computer, from, at]
    written,    \* per live digest, the slices written to it so far, in order
    ret,        \* the value the latest call returned: <<>> or <<[d, value]>> from sum64
    input,      \* the calls of an update function in flight, [state, addr, bytes]: <<>> if none
    output      \* what that call returned: <<>> or <<[simd, table, calls]>>

vars == <<platform, digests, made, written, ret, input, output>>

----------------------------------------------------------------------------
(* Inputs: memory the callers pass in *)

\* a buffer at a 16-byte aligned address; byte i of it (0-based)
Data(i) == (((i * i) % 251) + (3 * ((7 * i) % 241)) + (i \div 7)) % 256

BUF_LEN == 640

BUF == [i \in 1..BUF_LEN |-> Data(i - 1)]

\* the slice BUF[from .. from + len), which lies at address from (mod 16)
Slice(from, len) == [addr |-> from, bytes |-> [i \in 1..len |-> BUF[from + i]]]

\* the concatenation of the first n slices of ws
RECURSIVE Flatten(_, _)
Flatten(ws, n) == IF n = 0 THEN <<>> ELSE Flatten(ws, n - 1) \o ws[n].bytes

\* all bytes written to the digest d so far
Written(d) == Flatten(written[d], Len(written[d]))

----------------------------------------------------------------------------
(* Operations of the facade *)

Live == DOMAIN digests

New(d) ==
    /\ d \notin Live
    /\ digests' = (d :> Digest_new(platform)) @@ digests
    /\ made' = (d :> [by |-> "new", computer |-> Digest_new(platform).computer,
                      from |-> d, at |-> 0]) @@ made
    /\ written' = (d :> <<>>) @@ written
    /\ ret' = <<>>
    /\ UNCHANGED <<platform, input, output>>

NewTable(d) ==
    /\ d \notin Live
    /\ digests' = (d :> Digest_new_table) @@ digests
    /\ made' = (d :> [by |-> "new_table", computer |-> Digest_new_table.computer,
                      from |-> d, at |-> 0]) @@ made
    /\ written' = (d :> <<>>) @@ written
    /\ ret' = <<>>
    /\ UNCHANGED <<platform, input, output>>

Write(d, sl) ==
    /\ d \in Live
    /\ digests' = [digests EXCEPT ![d] = Digest_write(platform, @, sl.bytes, sl.addr)]
    /\ written' = [written EXCEPT ![d] = Append(@, sl)]
    /\ ret' = <<>>
    /\ UNCHANGED <<platform, made, input, output>>

Sum64(d) ==
    /\ d \in Live
    /\ ret' = << [d |-> d, value |-> Digest_sum64(digests[d])] >>
    /\ UNCHANGED <<platform, digests, made, written, input, output>>

Clone(d, e) ==
    /\ d \in Live
    /\ e \notin Live
    /\ digests' = (e :> Digest_clone(digests[d])) @@ digests
    /\ made' = (e :> [by |-> "clone", computer |-> Digest_clone(digests[d]).computer,
                      from |-> d, at |-> Len(written[d])]) @@ made
    /\ written' = (e :> written[d]) @@ written
    /\ ret' = <<>>
    /\ UNCHANGED <<platform, input, output>>

\* the facade with the digest slots D, driven with slices from In, at most
\* maxw writes per digest
Facade(D, In, maxw) ==
    \E d \in D :
        \/ New(d)
        \/ NewTable(d)
        \/ \E sl \in In : d \in Live /\ Len(written[d]) < maxw /\ Write(d, sl)
        \/ Sum64(d)

\* cloning among the digest slots D
Cloning(D) == \E d \in D, e \in D : Clone(d, e)

InitFacade(P) ==
    /\ platform \in P
    /\ digests = << >>
    /\ made = << >>
    /\ written = << >>
    /\ ret = << >>
    /\ input = << >>
    /\ output = << >>

----------------------------------------------------------------------------
(* Direct calls of pclmulqdq::update and table::update *)

Apply ==
    /\ input # << >>
    /\ output = << >>
    /\ LET in == input[1]
       IN  output' = << [simd  |-> update(Backend(platform), in.state, in.bytes, in.addr),
                         table |-> table_update(in.state, in.bytes),
                         calls |-> update_calls(in.addr, Len(in.bytes))] >>
    /\ UNCHANGED <<platform, digests, made, written, ret, input>>

InitCall(P, States, In) ==
    /\ platform \in P
    /\ digests = << >>
    /\ made = << >>
    /\ written = << >>
    /\ ret = << >>
    /\ \E st \in States, sl \in In :
          input = << [state |-> st, addr |-> sl.addr, bytes |-> sl.bytes] >>
    /\ output = << >>

----------------------------------------------------------------------------
(* Threads: thread t owns the digest of slot t.  A write is a call in flight  *)
(* from the moment (self.computer)(self.state, bytes) has read self.state to  *)
(* the moment its result is assigned to self.state; input holds the calls in  *)
(* flight, by thread.                                                         *)

\* thread t enters (self.computer)(self.state, bytes)
BeginWrite(t, sl) ==
    /\ t \in Live
    /\ t \notin DOMAIN input
    /\ input' = (t :> [state |-> digests[t].state, addr |-> sl.addr, bytes |-> sl.bytes])
                    @@ input
    /\ UNCHANGED <<platform, digests, made, written, ret, output>>

\* a write whose result goes to a state that all digests share
EndWrite_shared(t) ==
    /\ t \in DOMAIN input
    /\ LET self == [computer |-> digests[t].computer, state |-> input[t].state]
           res  == Digest_write(platform, self, input[t].bytes, input[t].addr)
       IN  digests' = [u \in Live |-> [computer |-> digests[u].computer, state |-> res.state]]
    /\ written' = [written EXCEPT ![t] = Append(@, [addr |-> input[t].addr,
                                                    bytes |-> input[t].bytes])]
    /\ input' = IF DOMAIN input = {t} THEN << >>
                ELSE [u \in DOMAIN input \ {t} |-> input[u]]
    /\ ret' = << >>
    /\ UNCHANGED <<platform, made, output>>

\* the call of thread t returns and its result is assigned to self.state
EndWrite(t) ==
    /\ t \in DOMAIN input
    /\ LET self == [computer |-> digests[t].computer, state |-> input[t].state]
       IN  digests' = [digests EXCEPT
                          ![t] = Digest_write(platform, self, input[t].bytes, input[t].addr)]
    /\ written' = [written EXCEPT ![t] = Append(@, [addr |-> input[t].addr,
                                                    bytes |-> input[t].bytes])]
    /\ input' = IF DOMAIN input = {t} THEN << >>
                ELSE [u \in DOMAIN input \ {t} |-> input[u]]
    /\ ret' = << >>
    /\ UNCHANGED <<platform, made, output>>

\* the threads T, each creating its digest (with new(), those of Tab with
\* new_table() as well), writing slices of In to it (at most maxw) and reading
\* its sum, in any interleaving of their steps
Threads(T, Tab, In, maxw) ==
    \E t \in T :
        \/ New(t)
        \/ t \in Tab /\ NewTable(t)
        \/ \E sl \in In : t \in Live /\ Len(written[t]) < maxw /\ BeginWrite(t, sl)
        \/ EndWrite(t)
        \/ t \notin DOMAIN input /\ Sum64(t)

----------------------------------------------------------------------------
(* Direct calls of the operations of a lane, on every backend.  A lane that   *)
(* is an argument is given by its two halves and built with the new of the    *)
(* backend; a lane that is returned is read as its 16 bytes (the transmute to *)
(* u128 of PartialEq, src/pclmulqdq/mod.rs lines 53-62).                      *)

\* x86.rs, aarch64.rs as built by default, aarch64.rs with cfg(slow), arch.rs
LaneBackends == {"x86", "aarch64", "aarch64-slow", "fake-simd"}

\* the module a backend selects among in Simd_new .. barrett
LaneModule(be) == IF be = "aarch64-slow" THEN "aarch64" ELSE be

LaneOf(be, h) == Simd_new(LaneModule(be), h.high, h.low)

\* the call `in` made on the backend be
lane_call(be, in) ==
    CASE in.op = "new"     -> Simd_new(LaneModule(be), in.high, in.low)
      [] in.op = "xor"     -> Simd_bitxor(LaneModule(be), LaneOf(be, in.x), LaneOf(be, in.y))
      [] in.op = "fold_16" ->
            IF be = "aarch64-slow"
            THEN aarch64_fold_16_slow(LaneOf(be, in.x), LaneOf(be, in.c))
            ELSE fold_16(be, LaneOf(be, in.x), LaneOf(be, in.c))
      [] in.op = "fold_8"  -> fold_8(LaneModule(be), LaneOf(be, in.x), in.k)
      [] in.op = "barrett" -> barrett(LaneModule(be), LaneOf(be, in.x), in.poly, in.mu)

\* the call in flight is made on every backend
LaneApply(op) ==
    /\ input # << >>
    /\ output = << >>
    /\ input[1].op = op
    /\ output' = << [be \in LaneBackends |-> lane_call(be, input[1])] >>
    /\ UNCHANGED <<platform, digests, made, written, ret, input>>

LaneNew == LaneApply("new")

LaneXor == LaneApply("xor")

LaneFold16 == LaneApply("fold_16")

LaneFold8 == LaneApply("fold_8")

LaneBarrett == LaneApply("barrett")

InitLane(P, Calls) ==
    /\ platform \in P
    /\ digests = << >>
    /\ made = << >>
    /\ written = << >>
    /\ ret = << >>
    /\ \E c \in Calls : input = << c >>
    /\ output = << >>

----------------------------------------------------------------------------
(* update_simd step by step.  input holds the call, [state, addr, bytes] with *)
(* bytes = first followed by rest; output holds the position in the function  *)
(* and its locals: the lanes x, the number j of chunks of rest folded so far, *)
(* the accumulator acc of the final fold and the number i of lanes folded     *)
(* into it, and the value returned.                                           *)

\* the number of chunks of the call: first and those of rest
ChunksOfCall == Len(input[1].bytes) \div CHUNK_SIZE

\* let mut x = *first; x[0] ^= Simd::new(0, state);
SimdEnter ==
    /\ input # << >>
    /\ output = << >>
    /\ output' = << [pc |-> "fold",
                     x |-> simd_lanes(Backend(platform), input[1].state, input[1].bytes, 0, 0),
                     j |-> 0, acc |-> Zero128, i |-> 0, result |-> Zero64] >>
    /\ UNCHANGED <<platform, digests, made, written, ret, input>>

\* one iteration of `for chunk in rest`
SimdFoldChunk ==
    /\ output # << >>
    /\ output[1].pc = "fold"
    /\ output[1].j < ChunksOfCall - 1
    /\ LET chunk == LoadChunk(input[1].bytes, CHUNK_SIZE * (output[1].j + 1))
       IN  output' = << [output[1] EXCEPT
                            !.x = fold_chunk(Backend(platform), output[1].x, chunk),
                            !.j = @ + 1] >>
    /\ UNCHANGED <<platform, digests, made, written, ret, input>>

\* rest is exhausted: x.iter().zip(&coeffs).fold(x[7], ...) starts
SimdBeginTail ==
    /\ output # << >>
    /\ output[1].pc = "fold"
    /\ output[1].j = ChunksOfCall - 1
    /\ output' = << [output[1] EXCEPT !.pc = "tail", !.acc = output[1].x[8], !.i = 0] >>
    /\ UNCHANGED <<platform, digests, made, written, ret, input>>

\* one step of the fold: |acc, (m, c)| acc ^ m.fold_16(*c)
SimdTailStep ==
    /\ output # << >>
    /\ output[1].pc = "tail"
    /\ output[1].i < 7
    /\ LET be == Backend(platform)
           m  == output[1].x[output[1].i + 1]
           c  == coeffs(be)[output[1].i + 1]
       IN  output' = << [output[1] EXCEPT
                            !.acc = Simd_bitxor(be, @, fold_16(be, m, c)),
                            !.i = @ + 1] >>
    /\ UNCHANGED <<platform, digests, made, written, ret, input>>

\* .fold_8(table::K_127)
SimdFold8 ==
    /\ output # << >>
    /\ output[1].pc = "tail"
    /\ output[1].i = 7
    /\ output' = << [output[1] EXCEPT
                        !.pc = "barrett",
                        !.acc = fold_8(Backend(platform), @, K_127)] >>
    /\ UNCHANGED <<platform, digests, made, written, ret, input>>

\* .barrett(table::POLY, table::MU), the value update_simd returns
SimdBarrett ==
    /\ output # << >>
    /\ output[1].pc = "barrett"
    /\ output' = << [output[1] EXCEPT
                        !.pc = "done",
                        !.result = barrett(Backend(platform), output[1].acc, POLY, MU)] >>
    /\ UNCHANGED <<platform, digests, made, written, ret, input>>

----------------------------------------------------------------------------
(* The table builder run as a program, build_table.rs main.  input holds the  *)
(* argument, [table_id]; output holds the loop variable i and the values      *)
(* printed so far, one per line.                                              *)

\* the argument is parsed and the header line printed
BuildStart ==
    /\ input # << >>
    /\ output = << >>
    /\ output' = << [i |-> 0, lines |-> << >>] >>
    /\ UNCHANGED <<platform, digests, made, written, ret, input>>

\* one iteration of `for i in 0..=255u8`
BuildEntry ==
    /\ output # << >>
    /\ output[1].i <= 255
    /\ output' = << [i |-> output[1].i + 1,
                     lines |-> Append(output[1].lines,
                                      build_table_entry(input[1].table_id, output[1].i))] >>
    /\ UNCHANGED <<platform, digests, made, written, ret, input>>

InitBuild(P, Ids) ==
    /\ platform \in P
    /\ digests = << >>
    /\ made = << >>
    /\ written = << >>
    /\ ret = << >>
    /\ \E t \in Ids : input = << [table_id |-> t] >>
    /\ output = << >>

----------------------------------------------------------------------------
(* Platforms and specifications *)

X86_FULL == [arch |-> "x86_64", fake_simd |-> FALSE, features |-> X86_FEATURES]

X86_FAKE == [arch |-> "x86_64", fake_simd |-> TRUE, features |-> {}]

\* every platform: each feature subset of each architecture, and the fake-simd builds
AllPlatforms ==
    {[arch |-> a, fake_simd |-> FALSE, features |-> f] :
        a \in {"x86", "x86_64"}, f \in SUBSET X86_FEATURES}
    \cup {[arch |-> "aarch64", fake_simd |-> FALSE, features |-> f] :
        f \in SUBSET AARCH64_FEATURES}
    \cup {[arch |-> "riscv64", fake_simd |-> FALSE, features |-> {}]}
    \cup {[arch |-> a, fake_simd |-> TRUE, features |-> {}] :
        a \in {"x86_64", "aarch64", "riscv64"}}

\* the slices BUF[a .. b) between two cut points of C, and the empty slice
SlicesOf(C) ==
    {Slice(c[1], c[2] - c[1]) : c \in {c \in C \X C : c[1] < c[2]}} \cup {Slice(0, 0)}

MaxWrites == 2

\* Spec: two digests on a CPU with all features; the empty slice and a slice of
\* 15 bytes, one chunk and one byte
Slots == {1, 2}

Inputs == {Slice(0, 0), Slice(1, 144)}

Init == InitFacade({X86_FULL})

Next == Facade(Slots, Inputs, MaxWrites) \/ Cloning(Slots)

Spec == Init /\ [][Next]_vars

\* SpecStream: one digest; the empty slice, slices of one chunk and of two chunks
\* without a left part, a slice with a left part, one chunk and a right part,
\* and a slice with a left part and no chunk
StreamInputs ==
    {Slice(0, 0), Slice(0, 145), Slice(0, 280), Slice(1, 144), Slice(1, 279),
     Slice(145, 135)}

InitStream == InitFacade({X86_FULL})

NextStream == Facade({1}, StreamInputs, MaxWrites)

SpecStream == InitStream /\ [][NextStream]_vars

\* SpecDispatch: every platform; slices too short for a chunk
DispatchInputs == SlicesOf({0, 3, 20})

InitDispatch == InitFacade(AllPlatforms)

NextDispatch == Facade({1}, DispatchInputs, 1)

SpecDispatch == InitDispatch /\ [][NextDispatch]_vars

\* SpecSweep: pclmulqdq::update called directly on BUF[o .. o + n) for every start
\* o <= MaxOffset and every length n <= MaxLen, from the state of a fresh digest
MaxOffset == 16
MaxLen == 256

SweepInputs == {Slice(o, n) : o \in 0..MaxOffset, n \in 0..MaxLen}

InitSweep == InitCall({X86_FULL}, {AllOnes}, SweepInputs)

NextSweep == Apply

SpecSweep == InitSweep /\ [][NextSweep]_vars

\* SpecUpdate: pclmulqdq::update and table::update called directly from arbitrary
\* states, with the x86 lane and with the portable lane
SampleStates ==
    {AllOnes, Zero64, FromByte(1), K_575,
     U64(4660, 22136, 39612, 57072),      \* 0x1234_5678_9abc_def0
     U64(32768, 0, 0, 1)}                 \* 0x8000_0000_0000_0001

UpdateInputs == SlicesOf({0, 5, 16, 150, 290, 420})

InitUpdate == InitCall({X86_FULL, X86_FAKE}, SampleStates, UpdateInputs)

NextUpdate == Apply

SpecUpdate == InitUpdate /\ [][NextUpdate]_vars

\* SpecThreads: two threads, one digest each, on a CPU with all features: thread
\* 1 is on the SIMD path, thread 2 on either; the empty slice and a slice of 15
\* bytes, one chunk and one byte
ThreadIds == {1, 2}

InitThreads == InitFacade({X86_FULL})

NextThreads == Threads(ThreadIds, {2}, Inputs, MaxWrites)

SpecThreads == InitThreads /\ [][NextThreads]_vars

AARCH64_FULL == [arch |-> "aarch64", fake_simd |-> FALSE, features |-> AARCH64_FEATURES]

\* SpecFold: update_simd run step by step on one to three chunks at 16-byte
\* aligned addresses, from the sample states, on each lane backend
MaxChunks == 3

FoldInputs == {Slice(a, CHUNK_SIZE * k) : a \in {0, 16, 112}, k \in 1..MaxChunks}

InitFold == InitCall({X86_FULL, X86_FAKE, AARCH64_FULL}, SampleStates, FoldInputs)

NextFold ==
    \/ SimdEnter
    \/ SimdFoldChunk
    \/ SimdBeginTail
    \/ SimdTailStep
    \/ SimdFold8
    \/ SimdBarrett

SpecFold == InitFold /\ [][NextFold]_vars

\* SpecBuild: the builder run for each of the sixteen tables
TableIds == 0..15

InitBuild16 == InitBuild({X86_FULL}, TableIds)

NextBuild == BuildStart \/ BuildEntry

SpecBuild == InitBuild16 /\ [][NextBuild]_vars

\* SpecTable: table::update called directly from the sample states on every
\* slice of up to MaxTableLen bytes at an aligned and at an odd address
MaxTableLen == 40

TableInputs == {Slice(o, n) : o \in {0, 7}, n \in 0..MaxTableLen}

InitTable == InitCall({X86_FULL}, SampleStates, TableInputs)

NextTable == Apply

SpecTable == InitTable /\ [][NextTable]_vars

----------------------------------------------------------------------------
(* The micro-tests of the lane, src/pclmulqdq/mod.rs lines 144-181 *)

\* test_xor: z = x ^ y
T_xor ==
    [call |-> [op |-> "xor",
               x |-> [high |-> U64(58448, 34809, 45105, 3399), low |-> U64(15730, 59690, 38599, 19555)],
               y |-> [high |-> U64(32472, 44554, 57277, 35264), low |-> U64(7323, 57258, 38206, 3828)]],
     expected |-> [high |-> U64(39560, 10739, 28556, 33927), low |-> U64(8681, 13952, 1017, 17047)]]

\* test_xor: z ^= ...
T_xor_assign ==
    [call |-> [op |-> "xor",
               x |-> [high |-> U64(39560, 10739, 28556, 33927), low |-> U64(8681, 13952, 1017, 17047)],
               y |-> [high |-> U64(22434, 3908, 49157, 45802), low |-> U64(28758, 48617, 37635, 43601)]],
     expected |-> [high |-> U64(52522, 9911, 44937, 13933), low |-> U64(20927, 35689, 37114, 59590)]]

T_fold_16 ==
    [call |-> [op |-> "fold_16",
               x |-> [high |-> U64(46577, 9616, 22085, 2924), low |-> U64(13114, 11337, 50017, 40481)],
               c |-> [high |-> U64(48844, 40409, 911, 50022), low |-> U64(23465, 13915, 58089, 23541)]],
     expected |-> [high |-> U64(20309, 17119, 61237, 6160), low |-> U64(3075, 23510, 28924, 23229)]]

T_fold_8 ==
    [call |-> [op |-> "fold_8",
               x |-> [high |-> U64(24768, 46223, 19090, 8195), low |-> U64(8252, 63420, 44340, 4155)],
               k |-> U64(16016, 13960, 60017, 62578)],
     expected |-> [high |-> U64(2007, 10081, 19734, 22235), low |-> U64(11200, 60810, 41793, 30309)]]

T_barrett ==
    [call |-> [op |-> "barrett",
               x |-> [high |-> U64(9734, 58754, 13318, 39854), low |-> U64(30412, 4357, 4079, 28008)],
               poly |-> U64(17245, 3961, 6566, 5189),
               mu |-> U64(22551, 25202, 63738, 47317)],
     expected |-> U64(24141, 595, 37930, 55645)]

\* the vectors, the expected lanes as their 16 bytes
LaneVectors ==
    {[call |-> v.call, expected |-> v.expected.low \o v.expected.high] :
        v \in {T_xor, T_xor_assign, T_fold_16, T_fold_8}}
    \cup {T_barrett}

\* SpecLanes: the operations of the lane called on sample arguments and on the
\* arguments of the micro-tests
LaneWords ==
    {Zero64, AllOnes, FromByte(1), FromByte(128), K_127,
     U64(32768, 0, 0, 0),                 \* 0x8000_0000_0000_0000
     U64(4660, 22136, 39612, 57072)}      \* 0x1234_5678_9abc_def0

LaneHalves == {[high |-> h, low |-> l] : h \in LaneWords, l \in LaneWords}

CoeffHalves ==
    {[high |-> K_1023, low |-> K_1087], [high |-> K_127, low |-> K_191],
     [high |-> AllOnes, low |-> FromByte(1)], [high |-> Zero64, low |-> AllOnes]}

LaneCalls ==
    {[op |-> "new", high |-> h, low |-> l] : h \in LaneWords, l \in LaneWords}
    \cup {[op |-> "xor", x |-> x, y |-> y] : x \in LaneHalves, y \in CoeffHalves}
    \cup {[op |-> "fold_16", x |-> x, c |-> c] : x \in LaneHalves, c \in CoeffHalves}
    \cup {[op |-> "fold_8", x |-> x, k |-> k] :
             x \in LaneHalves, k \in {K_127, AllOnes, FromByte(128)}}
    \cup {[op |-> "barrett", x |-> x, poly |-> pm[1], mu |-> pm[2]] :
             x \in LaneHalves, pm \in {<<POLY, MU>>, <<AllOnes, FromByte(1)>>, <<K_127, AllOnes>>}}
    \cup {v.call : v \in LaneVectors}

InitLanes == InitLane({X86_FULL}, LaneCalls)

NextLanes == LaneNew \/ LaneXor \/ LaneFold16 \/ LaneFold8 \/ LaneBarrett

SpecLanes == InitLanes /\ [][NextLanes]_vars

----------------------------------------------------------------------------
(* Known answers: src/lib.rs lines 11-19 and 83-95, and the check value *)

V_check == [writes |-> << <<49, 50, 51, 52, 53, 54, 55, 56, 57>> >>,
    expected |-> U64(39261, 51643, 57113, 14842)]    \* "123456789", 0x995d_c9bb_df19_39fa

V_at == [writes |-> << <<64>> >>,
    expected |-> U64(31515, 35513, 36772, 47352)]    \* "@", 0x7b1b_8ab9_8fa4_b8f8

V_2 == [writes |-> << <<49, 151>> >>,
    expected |-> U64(65208, 63393, 44603, 39892)]    \* 31 97, 0xfeb8_f7a1_ae3b_9bd4

V_3 == [writes |-> << <<77, 34, 223>> >>,
    expected |-> U64(49174, 3304, 56646, 29907)]    \* 4D 22 DF, 0xc016_0ce8_dd46_74d3

V_4 == [writes |-> << <<108, 205, 19, 215>> >>,
    expected |-> U64(23648, 42671, 33433, 28328)]    \* 6C CD 13 D7, 0x5c60_a6af_8299_6ea8

V_zero32 == [writes |-> << [i \in 1..32 |-> 0] >>,
    expected |-> U64(51546, 63585, 31957, 13068)]    \* [0; 32], 0xc95a_f861_7cd5_330c

V_ff32 == [writes |-> << [i \in 1..32 |-> 255] >>,
    expected |-> U64(59741, 52894, 64160, 39631)]    \* [255; 32], 0xe95d_ce9e_faa0_9acf

V_ramp32 == [writes |-> << [i \in 1..32 |-> i - 1] >>,
    expected |-> U64(32741, 29093, 34568, 19728)]    \* 00 01 .. 1F, 0x7fe5_71a5_8708_4d10

V_zero1024 == [writes |-> << [i \in 1..1024 |-> 0] >>,
    expected |-> U64(50040, 25495, 8297, 9996)]    \* [0; 1024], 0xc378_6397_2069_270c

V_hello == [writes |-> << <<104, 101, 108, 108, 111, 32>>, <<119, 111, 114, 108, 100, 33>> >>,
    expected |-> U64(33923, 49402, 12896, 32097)]    \* "hello ", "world!", 0x8483_c0fa_3260_7d61

V_empty == [writes |-> << << >> >>, expected |-> Zero64]          \* "", 0

Vectors ==
    {V_check, V_at, V_2, V_3, V_4, V_zero32, V_ff32, V_ramp32, V_zero1024, V_hello, V_empty}

\* the byte strings of the vectors, each at an aligned and at an odd address
VectorInputs ==
    UNION {{[addr |-> a, bytes |-> v.writes[i]] : a \in {0, 5}, i \in DOMAIN v.writes} :
              v \in Vectors}

\* SpecVectors: one digest fed the byte strings of the vectors, each vector being
\* one write or two
InitVectors == InitFacade({X86_FULL})

NextVectors == Facade({1}, VectorInputs, 2)

SpecVectors == InitVectors /\ [][NextVectors]_vars

----------------------------------------------------------------------------
(* Equivalence with the reference, and streaming *)

\* C1: after any sequence of writes, the state of a digest is the register of
\* the bit-at-a-time reference CRC-64-ECMA over the concatenation of the bytes
\* written so far, started at all-ones; sum64 is the reference checksum of that
\* concatenation, and that is what a call of sum64() returns.
C1_OracleEquivalence ==
    \A d \in Live :
        LET reg == crc_internal(Written(d), AllOnes)     \* checksum_ecma is its ref_finish
        IN  /\ digests[d].state = reg
            /\ Digest_sum64(digests[d]) = ref_finish(reg)
            /\ (ret # << >> /\ ret[1].d = d) => ret[1].value = ref_finish(reg)

\* the calls update makes for the i-th write to d
CallsOfWrite(d, i) == update_calls(written[d][i].addr, Len(written[d][i].bytes))

\* a digest of Digest::new() on the SIMD path has taken two writes, each with a
\* left part, chunks and a right part, and sum64() has returned for it
C1_Witness ==
    \E d \in Live :
        /\ digests[d].computer = SIMD_UPDATE
        /\ Len(written[d]) = 2
        /\ \A i \in 1..2 : Len(CallsOfWrite(d, i)) = 3 /\ CallsOfWrite(d, i)[1].to > 0
        /\ ret = << [d |-> d, value |-> checksum_ecma(Written(d))] >>

\* a fresh digest from the constructor that made d
FreshLike(d) ==
    IF digests[d].computer = Digest_new(platform).computer
    THEN Digest_new(platform)
    ELSE Digest_new_table

\* the addresses (mod 16) the concatenation is placed at for the single write:
\* where the first piece lay, and an address that moves every cut of the split
OneShotAddrs(d) ==
    {9} \cup (IF written[d] = << >> THEN {} ELSE {written[d][1].addr % 16})

\* C2: writing the pieces one after the other leaves the digest in the state in
\* which a fresh digest of the same constructor is after one write of their
\* concatenation, whatever the alignment and the lengths of the pieces; the
\* two report the same sum64.
C2_Concatenation ==
    \A d \in Live : \A a \in OneShotAddrs(d) :
        LET one == Digest_write(platform, FreshLike(d), Written(d), a)
        IN  /\ digests[d].state = one.state
            /\ Digest_sum64(digests[d]) = Digest_sum64(one)

\* the calls update makes for the single write of everything written to d,
\* placed where the first piece lay
OneShotCalls(d) == update_calls(written[d][1].addr, Len(Written(d)))

\* a buffer was split inside the chunks that the single write hands to
\* update_simd, and the two pieces were written to a digest on the SIMD path
C2_Witness ==
    \E d \in Live :
        /\ digests[d].computer = SIMD_UPDATE
        /\ Len(written[d]) = 2
        /\ written[d][2].addr = written[d][1].addr + Len(written[d][1].bytes)
        /\ Len(OneShotCalls(d)) = 3
        /\ OneShotCalls(d)[2].from < Len(written[d][1].bytes)
        /\ Len(written[d][1].bytes) < OneShotCalls(d)[2].to

----------------------------------------------------------------------------
(* The facade: cloning, frame conditions, the empty input *)

\* the step is a write to the live digest d: a slice was added to its history
WroteTo(d) == written'[d] # written[d]

\* clone() yields the same state and the same update function, and leaves the
\* original as it is
C4_CloneStep ==
    \A d \in Slots, e \in Slots :
        Clone(d, e) => (digests'[e] = digests[d] /\ digests'[d] = digests[d])

\* a write to one digest leaves every other digest, its clones and its origin
\* among them, with its state and its sum64
C4_WriteFrame ==
    \A d \in Live :
        WroteTo(d) =>
            \A e \in Live \ {d} :
                /\ digests'[e].state = digests[e].state
                /\ Digest_sum64(digests'[e]) = Digest_sum64(digests[e])

\* the slices written to d after its first n writes
WritesAfter(d, n) == SubSeq(written[d], n + 1, Len(written[d]))

\* a clone and its origin that have been written the same slices since the
\* cloning have the same update function, the same state and the same sum64
C4_SameAfter ==
    \A e \in Live :
        made[e].by = "clone" =>
            LET d == made[e].from
            IN  /\ digests[e].computer = digests[d].computer
                /\ WritesAfter(d, made[e].at) = WritesAfter(e, made[e].at) =>
                      /\ digests[e].state = digests[d].state
                      /\ Digest_sum64(digests[e]) = Digest_sum64(digests[d])

\* C4: clone() yields a digest with the same state and update function; a
\* write to either leaves the other's state and sum64 unchanged; writing L,
\* cloning, and writing R to both gives equal sum64 on both.
C4_CloneIndependence == [][C4_CloneStep /\ C4_WriteFrame]_vars /\ []C4_SameAfter

\* L was written to a digest on the SIMD path, it was cloned, and R was written
\* to the original and to the clone
C4_Witness ==
    \E d \in Live, e \in Live :
        /\ made[e].by = "clone" /\ made[e].from = d /\ made[e].at = 1
        /\ digests[d].computer = SIMD_UPDATE
        /\ Len(written[d]) = 2 /\ Len(written[e]) = 2
        /\ written[d][1].bytes # << >>
        /\ written[d][2] = written[e][2] /\ written[d][2].bytes # << >>
        /\ Digest_sum64(digests[d]) = Digest_sum64(digests[e])

\* no step, write among them, changes the update function of a digest
C6_WriteStep ==
    \A d \in Live : digests'[d].computer = digests[d].computer

\* only write changes the state of a digest
C6_StateFrame ==
    \A d \in Live : digests'[d].state # digests[d].state => WroteTo(d)

\* sum64() returns !state and leaves the digest as it was; called again with
\* no write in between it returns the same value
C6_Sum64Step ==
    \A d \in Slots :
        Sum64(d) =>
            /\ ret'[1].value = Not64(digests[d].state)
            /\ digests' = digests
            /\ (ret # << >> /\ ret[1].d = d) => ret'[1].value = ret[1].value

\* the update function of a digest is the one installed at its creation
C6_Computer == \A d \in Live : digests[d].computer = made[d].computer

\* C6: in every reachable state the update function of a digest is the one
\* installed at its creation, the state is changed only by write, and sum64()
\* returns the bitwise NOT of the state without modifying the digest, so that
\* two consecutive sum64() calls return the same value.
C6_Frame == [][C6_WriteStep /\ C6_StateFrame /\ C6_Sum64Step]_vars /\ []C6_Computer

\* sum64() has returned for a digest on the SIMD path that has taken two
\* writes, while a second digest is alive
C6_Witness ==
    \E d \in Live, e \in Live :
        /\ d # e
        /\ digests[d].computer = SIMD_UPDATE
        /\ Len(written[d]) = 2 /\ written[d][2].bytes # << >>
        /\ ret = << [d |-> d, value |-> Not64(digests[d].state)] >>

\* no non-empty slice has been written to d
NoBytes(d) == \A i \in 1..Len(written[d]) : written[d][i].bytes = << >>

\* the empty slice, at an aligned and at an odd address
EmptySlices == {[addr |-> a, bytes |-> << >>] : a \in {0, 7}}

\* C10: a digest to which no non-empty slice has been written has the state
\* all-ones and reports 0, whichever constructor made it and however many
\* empty slices were written; writing the empty slice leaves the state of any
\* digest unchanged.
C10_EmptyInput ==
    /\ \A d \in Live :
          /\ NoBytes(d) => (digests[d].state = AllOnes /\ Digest_sum64(digests[d]) = Zero64)
          /\ \A sl \in EmptySlices :
                Digest_write(platform, digests[d], sl.bytes, sl.addr).state = digests[d].state
    /\ (ret # << >> /\ NoBytes(ret[1].d)) => ret[1].value = Zero64

\* sum64() has returned 0 for a digest of Digest::new() after two writes of the
\* empty slice, while another digest holds a state other than all-ones
C10_Witness ==
    \E d \in Live, e \in Live :
        /\ made[d].by = "new"
        /\ Len(written[d]) = 2 /\ NoBytes(d)
        /\ ret = << [d |-> d, value |-> Zero64] >>
        /\ digests[e].state # AllOnes

----------------------------------------------------------------------------
(* The two update functions, the split, known answers, dispatch *)

\* C3: from every 64-bit state, reachable from the initial value or not, and
\* for every byte slice, pclmulqdq::update and table::update return the same
\* state, so that digests of Digest::new() and of Digest::new_table() fed the
\* same writes report the same sum64.
C3_PathsAgree ==
    output # << >> =>
        /\ output[1].simd = output[1].table
        /\ ref_finish(output[1].simd) = ref_finish(output[1].table)

\* the two functions were called with a state other than all-ones on a slice
\* with a left part, two chunks and a right part
C3_Witness ==
    /\ output # << >>
    /\ input[1].state = U64(4660, 22136, 39612, 57072)
    /\ Len(output[1].calls) = 3
    /\ output[1].calls[1].to > 0
    /\ output[1].calls[2].to - output[1].calls[2].from = 2 * CHUNK_SIZE
    /\ output[1].calls[3].to > output[1].calls[3].from
    /\ output[1].simd = output[1].table

\* C7: for every start offset o in 0 .. MaxOffset from a 16-byte boundary and
\* every length n in 0 .. MaxLen, the checksum that the dispatched update gives
\* for buf[o .. o + n) is the reference checksum of the same bytes.
C7_AlignmentSweep ==
    output # << >> =>
        ref_finish(output[1].simd) = checksum_ecma(input[1].bytes)

\* the update ran on 256 bytes starting 13 bytes after a boundary: 3 bytes of
\* left, one chunk, 125 bytes of right
C7_Witness ==
    /\ output # << >>
    /\ input[1].addr = 13 /\ Len(input[1].bytes) = 256
    /\ output[1].calls = << [fn |-> "table", from |-> 0, to |-> 3],
                            [fn |-> "simd", from |-> 3, to |-> 131],
                            [fn |-> "table", from |-> 131, to |-> 256] >>
    /\ ref_finish(output[1].simd) = checksum_ecma(input[1].bytes)

\* the split of the slice of the call
SplitOfInput == align_to(input[1].addr, Len(input[1].bytes))

\* C8: left, middle and right partition the slice in order; left has at most 15
\* bytes and right at most 127; middle starts on a 16-byte boundary and is a
\* whole number of 128-byte chunks; the calls consume every byte exactly once
\* and none outside the slice: left by the table update, middle by the SIMD
\* fold, right by the table update, and the whole slice by the table update
\* alone when middle has no chunk.
C8_SplitPartition ==
    output # << >> =>
        LET n     == Len(input[1].bytes)
            s     == SplitOfInput
            calls == output[1].calls
            mid   == CHUNK_SIZE * s.middle
        IN  /\ s.left + mid + s.right = n
            /\ s.left >= 0 /\ s.left <= 15
            /\ s.right >= 0 /\ s.right <= 127
            /\ s.middle >= 0
            /\ s.middle > 0 => (input[1].addr + s.left) % SIMD_ALIGN = 0
            /\ calls[1].from = 0 /\ calls[Len(calls)].to = n
            /\ \A i \in 1..Len(calls) : calls[i].from <= calls[i].to
            /\ \A i \in 1..(Len(calls) - 1) : calls[i].to = calls[i + 1].from
            /\ s.middle > 0 =>
                  calls = << [fn |-> "table", from |-> 0, to |-> s.left],
                             [fn |-> "simd", from |-> s.left, to |-> s.left + mid],
                             [fn |-> "table", from |-> s.left + mid, to |-> n] >>
            /\ s.middle = 0 => calls = << [fn |-> "table", from |-> 0, to |-> n] >>

\* a slice was split into 15 bytes of left, one chunk and more than 100 bytes
\* of right
C8_Witness ==
    /\ output # << >>
    /\ SplitOfInput.left = 15 /\ SplitOfInput.middle = 1 /\ SplitOfInput.right > 100
    /\ Len(output[1].calls) = 3

\* the byte strings written to d, in order
BytesOf(d) == [i \in 1..Len(written[d]) |-> written[d][i].bytes]

\* C9: sum64() returns the expected value of each known-answer vector for a
\* digest to which the byte strings of the vector were written.
C9_KnownAnswers ==
    ret # << >> =>
        \A v \in Vectors : BytesOf(ret[1].d) = v.writes => ret[1].value = v.expected

\* sum64() has returned the expected value for 1024 zero bytes at an odd
\* address, written to a digest on the SIMD path
C9_Witness ==
    /\ ret # << >>
    /\ digests[ret[1].d].computer = SIMD_UPDATE
    /\ BytesOf(ret[1].d) = V_zero1024.writes
    /\ written[ret[1].d][1].addr = 5
    /\ ret[1].value = V_zero1024.expected

\* the features the update function of new() is said to require
RequiredFeatures(arch) ==
    IF arch \in {"x86", "x86_64"} THEN {"pclmulqdq", "sse2", "sse4.1"}
    ELSE IF arch = "aarch64" THEN {"neon", "pmull"}
    ELSE {}

\* C5: new() installs the SIMD update when the CPU has every required feature
\* of its architecture (x86, x86_64: pclmulqdq, sse2, sse4.1; AArch64: neon,
\* pmull) and the table update otherwise; new_table() installs the table
\* update whatever the CPU supports.  Builds with the fake-simd feature, which
\* replace the detection, are left aside.
C5_Dispatch ==
    \A d \in Live :
        /\ (made[d].by = "new" /\ ~platform.fake_simd) =>
              made[d].computer =
                  IF /\ RequiredFeatures(platform.arch) # {}
                     /\ RequiredFeatures(platform.arch) \subseteq platform.features
                  THEN SIMD_UPDATE
                  ELSE TABLE_UPDATE
        /\ made[d].by = "new_table" => made[d].computer = TABLE_UPDATE

----------------------------------------------------------------------------
(* Threads *)

\* the digest after the first n writes of ws, made one after the other to fresh
RECURSIVE run_alone(_, _, _, _)
run_alone(p, fresh, ws, n) ==
    IF n = 0 THEN fresh
    ELSE LET before == run_alone(p, fresh, ws, n - 1)
         IN  IF Done(before) THEN Digest_write(p, before, ws[n].bytes, ws[n].addr)
             ELSE before

\* the digest of thread t, had t run alone: its constructor, then its writes in
\* their order
Alone(t) ==
    run_alone(platform,
              IF made[t].by = "new" THEN Digest_new(platform) ELSE Digest_new_table,
              written[t], Len(written[t]))

\* C11: however the steps of two threads that each own a digest interleave,
\* each digest holds the state it would hold had its thread run alone, a call
\* in flight was entered with that state, and sum64() reports the sum of that
\* state.
C11_ThreadsIndependent ==
    \A t \in Live :
        LET alone == Alone(t)
        IN  /\ digests[t] = alone
            /\ t \in DOMAIN input => input[t].state = alone.state
            /\ (ret # << >> /\ ret[1].d = t) => ret[1].value = Digest_sum64(alone)

\* sum64() has returned to thread 1 after its two writes, on the SIMD path,
\* while a write of thread 2, on the table path, is in flight
C11_Witness ==
    /\ Live = {1, 2}
    /\ DOMAIN input = {2}
    /\ made[1].by = "new" /\ made[2].by = "new_table"
    /\ Len(written[1]) = 2 /\ written[1][1].bytes # << >> /\ written[1][2].bytes # << >>
    /\ Len(written[2]) = 1 /\ written[2][1].bytes # << >>
    /\ input[2].bytes # << >>
    /\ ret = << [d |-> 1, value |-> Digest_sum64(Alone(1))] >>

----------------------------------------------------------------------------
(* The lane backends *)

\* new(high, low): the lane with upper 64 bits high and lower 64 bits low
contract_new(high, low) == low \o high

\* x.fold_16(c) = (c.low (x) x.low) + (c.high (x) x.high)
contract_fold_16(x, c) ==
    Xor128(Clmul64(Low64(c), Low64(x)), Clmul64(High64(c), High64(x)))

\* what the SimdExt contract gives for the call `in`, x = (x.high, x.low)
lane_contract(in) ==
    CASE in.op = "new"     -> contract_new(in.high, in.low)
      [] in.op = "xor"     -> Xor128(in.x.low \o in.x.high, in.y.low \o in.y.high)
      [] in.op = "fold_16" ->
            contract_fold_16(contract_new(in.x.high, in.x.low),
                             contract_new(in.c.high, in.c.low))
      [] in.op = "fold_8"  -> Xor128(Clmul64(in.x.low, in.k), in.x.high \o Zero64)
      [] in.op = "barrett" ->
            LET t == Low64(Clmul64(in.x.low, in.mu))
            IN  High64(Xor128(Xor128(Clmul64(t, in.poly), Zero64 \o t),
                              in.x.low \o in.x.high))

\* C12: the x86 lane, the AArch64 lane (as built by default and with
\* cfg(slow)) and the portable lane return the same value for every call of
\* new, xor, fold_16, fold_8 and barrett, that value is the one the contract
\* states, and on the arguments of test_xor, test_fold_16, test_fold_8 and
\* test_barrett it is the value the test expects.
C12_BackendsAgree ==
    output # << >> =>
        /\ \A be \in LaneBackends : output[1][be] = lane_contract(input[1])
        /\ \A v \in LaneVectors :
              v.call = input[1] => \A be \in LaneBackends : output[1][be] = v.expected

\* barrett was called with the arguments of test_barrett and returned the
\* expected value on every backend
C12_Witness ==
    /\ output # << >>
    /\ input[1] = T_barrett.call
    /\ \A be \in LaneBackends : output[1][be] = T_barrett.expected

----------------------------------------------------------------------------
(* The main loop of update_simd *)

\* the step is an iteration of the main loop
IsFoldStep ==
    /\ output # << >> /\ output' # << >>
    /\ output[1].pc = "fold" /\ output'[1].pc = "fold"
    /\ output'[1].j = output[1].j + 1

\* an iteration of the main loop sets each lane x[i] to y[i] + x[i].fold_16(k128),
\* y the chunk of the iteration
FoldStepWith(k128) ==
    IsFoldStep =>
        LET y == LoadChunk(input[1].bytes, CHUNK_SIZE * output'[1].j)
        IN  \A i \in 1..8 :
                output'[1].x[i] = Xor128(y[i], contract_fold_16(output[1].x[i], k128))

\* C13: for every chunk y after the first, the main loop updates each of the
\* eight lanes as x[i] <- y[i] + x[i].fold_16(K128), fold_16(c) being
\* (c.low (x) x.low) + (c.high (x) x.high) and K128 = new(K_1023, K_1087), the
\* lane whose upper 64 bits are K_1023 and whose lower 64 bits are K_1087.
C13_MainLoop == [][FoldStepWith(contract_new(K_1023, K_1087))]_vars

\* C13 as stated: K128 = new(K_1087, K_1023), the lane whose upper 64 bits are
\* K_1087 and whose lower 64 bits are K_1023.
C13_MainLoop_AsStated == [][FoldStepWith(contract_new(K_1087, K_1023))]_vars

\* the main loop has run twice on the AArch64 lane
C13_Witness ==
    /\ output # << >>
    /\ platform = AARCH64_FULL
    /\ output[1].pc = "fold" /\ output[1].j = 2
    /\ output[1].x = simd_lanes("aarch64", input[1].state, input[1].bytes, 0, 2)
    /\ output[1].x # simd_lanes("aarch64", input[1].state, input[1].bytes, 0, 1)

----------------------------------------------------------------------------
(* The tail reduction of update_simd *)

\* << x^lo, .., x^hi >> mod the generator, start being x^lo: each is the one
\* before it multiplied by x, by a step of the long division
RECURSIVE x_powers(_, _, _)
x_powers(start, lo, hi) ==
    IF lo = hi THEN << start >>
    ELSE LET mid  == (lo + hi) \div 2
             left == x_powers(start, lo, mid)
         IN  IF Done(left)
             THEN left \o x_powers(long_div_step(left[Len(left)]), mid + 1, hi)
             ELSE left

\* the largest exponent of a fold constant
MaxExponent == 1087

XPowers == x_powers(U64(0, 0, 0, 1), 0, MaxExponent)

\* x^n mod the generator
x_pow_mod(n) == XPowers[n + 1]

\* bit_reverse(x^n mod POLY)
K_of(n) == ReverseBits64(x_pow_mod(n))

\* x.fold_8(k) = clmul(x.low, k) + x.high zero-extended
contract_fold_8(x, k) == Xor128(Clmul64(Low64(x), k), High64(x) \o Zero64)

\* x.barrett(poly, mu) = (clmul(t, poly) + (t << 64) + x).high, t = clmul(x.low, mu).low
contract_barrett(x, poly, mu) ==
    LET t == Low64(Clmul64(Low64(x), mu))
    IN  High64(Xor128(Xor128(Clmul64(t, poly), Zero64 \o t), x))

\* the steps from the end of the main loop to the return: acc starts as x[7],
\* takes x[i].fold_16(C[i]) + acc for i = 0 .. 6 in turn, is reduced by
\* fold_8(K_127), and barrett(POLY, MU) of it is returned
TailStepsWith(C) ==
    (output # << >> /\ output' # << >>) =>
        LET o == output[1]
            n == output'[1]
        IN  /\ (o.pc = "fold" /\ n.pc = "tail") => (n.acc = o.x[8] /\ n.i = 0)
            /\ (o.pc = "tail" /\ n.pc = "tail") =>
                  /\ n.i = o.i + 1
                  /\ n.acc = Xor128(contract_fold_16(o.x[o.i + 1], C[o.i + 1]), o.acc)
            /\ (o.pc = "tail" /\ n.pc = "barrett") =>
                  (o.i = 7 /\ n.acc = contract_fold_8(o.acc, K_127))
            /\ (o.pc = "barrett" /\ n.pc = "done") =>
                  n.result = contract_barrett(o.acc, POLY, MU)

\* C_0 .. C_6 with K_895, K_767, .. K_127 as the upper halves
TailCoeffs ==
    << contract_new(K_895, K_959), contract_new(K_767, K_831),
       contract_new(K_639, K_703), contract_new(K_511, K_575),
       contract_new(K_383, K_447), contract_new(K_255, K_319),
       contract_new(K_127, K_191) >>

\* C_0 .. C_6 with K_959, K_831, .. K_191 as the upper halves
TailCoeffsAsStated ==
    << contract_new(K_959, K_895), contract_new(K_831, K_767),
       contract_new(K_703, K_639), contract_new(K_575, K_511),
       contract_new(K_447, K_383), contract_new(K_319, K_255),
       contract_new(K_191, K_127) >>

\* C_i folds over 112 - 16 i bytes: its upper half, which multiplies the upper
\* half of the lane, is bit_reverse(x^(8 d - 1) mod POLY), and its lower half
\* bit_reverse(x^(8 d + 63) mod POLY), d the distance in bytes
TailDistances ==
    \A i \in 0..6 :
        LET d == 112 - 16 * i
        IN  TailCoeffs[i + 1] = contract_new(K_of(8 * d - 1), K_of(8 * d + 63))

\* C14: the tail reduction starts with acc = x[7] and sets acc <- x[i].fold_16(C_i)
\* + acc for i = 0 .. 6, lane x[i] being folded over 112 - 16 i bytes, with
\* C_0 = new(K_895, K_959), C_1 = new(K_767, K_831), C_2 = new(K_639, K_703),
\* C_3 = new(K_511, K_575), C_4 = new(K_383, K_447), C_5 = new(K_255, K_319),
\* C_6 = new(K_127, K_191) (the first argument is the upper 64 bits); the
\* result is reduced by fold_8(K_127) and barrett(POLY, MU).
C14_TailReduction == [][TailStepsWith(TailCoeffs)]_vars /\ []TailDistances

\* C14 as stated: C_0 = new(K_959, K_895), C_1 = new(K_831, K_767),
\* C_2 = new(K_703, K_639), C_3 = new(K_575, K_511), C_4 = new(K_447, K_383),
\* C_5 = new(K_319, K_255), C_6 = new(K_191, K_127).
C14_TailReduction_AsStated == [][TailStepsWith(TailCoeffsAsStated)]_vars

\* update_simd has returned on the x86 lane after a main loop of two
\* iterations and the seven steps of the tail reduction
C14_Witness ==
    /\ output # << >>
    /\ platform = X86_FULL
    /\ output[1].pc = "done" /\ output[1].j = 2 /\ output[1].i = 7
    /\ output[1].result = simd_finish("x86", output[1].x)
    /\ output[1].x[8] # fold_tail("x86", output[1].x, 7)

----------------------------------------------------------------------------
(* The loop invariant of update_simd *)

\* C15: from every state s and for every sequence of aligned chunks, once
\* new(0, s) is XORed into lane 0 of the first chunk and j iterations of the main
\* loop have run, the tail reduction, fold_8(K_127) and barrett(POLY, MU) of the
\* lanes give table_update(s, first j + 1 chunks); what update_simd returns is
\* table_update(s, first ++ rest), with rest empty or not.
C15_LoopInvariant ==
    output # << >> =>
        LET o  == output[1]
            in == input[1]
            be == Backend(platform)
        IN  /\ o.pc = "fold" =>
                  simd_finish(be, o.x)
                      = table_update_range(in.state, in.bytes, 0, CHUNK_SIZE * (o.j + 1))
            /\ o.pc = "done" =>
                  /\ o.result = table_update(in.state, in.bytes)
                  /\ o.result = update_simd(be, in.state, in.bytes, 0, ChunksOfCall)

\* on the portable lane, from a state other than all-ones, one iteration of the
\* main loop has run and another chunk is still to come: the lanes reduce to
\* the table update of the first two chunks
C15_Witness ==
    /\ output # << >>
    /\ platform = X86_FAKE
    /\ input[1].state = FromByte(1)
    /\ output[1].pc = "fold" /\ output[1].j = 1 /\ ChunksOfCall = 3
    /\ simd_finish("fake-simd", output[1].x)
           = table_update_range(input[1].state, input[1].bytes, 0, 2 * CHUNK_SIZE)
    /\ simd_finish("fake-simd", output[1].x) # table_update(input[1].state, input[1].bytes)

----------------------------------------------------------------------------
(* The fold constants and the tables *)

\* the sixteen literals, K_127 first, 64 apart
K_literals ==
    << K_127, K_191, K_255, K_319, K_383, K_447, K_511, K_575,
       K_639, K_703, K_767, K_831, K_895, K_959, K_1023, K_1087 >>

\* C16: each fold constant K_n, n = 127, 191, .. 1087, is bit_reverse(x^n mod
\* POLY) for the generator of CRC-64-ECMA, K_127 being 0xdabe_95af_c787_5f40
\* and K_1087 0x8757_d71d_4fcc_1000; K_127 is the entry the builder prints for
\* the byte 1 of TABLE_7 and K_191 the one for the byte 1 of TABLE_15.
C16_FoldConstants ==
    /\ \A m \in 1..16 : K_literals[m] = K_of(127 + 64 * (m - 1))
    /\ K_of(127) = U64(55998, 38319, 51079, 24384)
    /\ K_of(1087) = U64(34647, 55069, 20428, 4096)
    /\ K_127 = TABLE[7][1] /\ K_191 = TABLE[15][1]
    /\ (output # << >> /\ output[1].i >= 2) =>
          /\ input[1].table_id = 7 => output[1].lines[2] = K_127
          /\ input[1].table_id = 15 => output[1].lines[2] = K_191

\* the builder has printed the entry of TABLE_15 for the byte 1, which is K_191
C16_Witness ==
    /\ output # << >>
    /\ input[1].table_id = 15
    /\ output[1].i = 2
    /\ output[1].lines[2] = K_of(191)

\* count steps of v <- (v << 1) + (POLY if (v >> 63) else 0)
RECURSIVE recurrence(_, _)
recurrence(v, count) ==
    IF count = 0 THEN v
    ELSE IF count = 1
         THEN Xor64(Shl1(v), IF v[8] \div 128 = 1 THEN BUILD_POLY ELSE Zero64)
    ELSE LET half == recurrence(v, count \div 2)
         IN  IF Done(half) THEN recurrence(half, count - count \div 2) ELSE half

\* the polynomial with the coefficients of the byte p in its top eight places,
\* times x^m, mod the generator: the sum of x^(56 + t + m) over the bits t of p
RECURSIVE top_byte_times_x_pow(_, _, _)
top_byte_times_x_pow(p, m, t) ==
    IF t = 8 THEN Zero64
    ELSE IF BitOf(p, t) = 1
         THEN Xor64(x_pow_mod(56 + t + m), top_byte_times_x_pow(p, m, t + 1))
         ELSE top_byte_times_x_pow(p, m, t + 1)

\* the entry for the byte b of table j as the claim gives it
EntryAsStated(j, b) ==
    /\ TABLE[j][b] = ReverseBits64(recurrence(<<0, 0, 0, 0, 0, 0, 0, RevTab[b]>>, 8 * (j + 1)))
    /\ TABLE[j][b] = ReverseBits64(top_byte_times_x_pow(RevTab[b], 8 * (j + 1), 0))

----------------------------------------------------------------------------
(* The table update and the byte-at-a-time step *)

\* state = (state >> 8) + TABLE_0[(state + b) & 0xFF] over bytes[from + 1 ..
\* from + n], one byte after the other
RECURSIVE byte_fold(_, _, _, _)
byte_fold(state, bytes, from, n) ==
    IF n = 0 THEN state
    ELSE LET before == byte_fold(state, bytes, from, n - 1)
         IN  IF Done(before) THEN table_byte_step(before, bytes[from + n]) ELSE before

\* C18: the step of table::update for a 16-byte block is sixteen single-byte
\* steps, from the state the block is met in; table::update of a slice of any
\* length is the single-byte step folded over its bytes in order; and
\* table::update of A and then of B is table::update of A ++ B, for every cut
\* of the slice into A and B.
C18_SliceBy16 ==
    output # << >> =>
        LET s     == input[1].state
            bytes == input[1].bytes
            n     == Len(bytes)
        IN  /\ output[1].table = byte_fold(s, bytes, 0, n)
            /\ \A k \in 0..(n - 16) :
                  /\ table_block_step(s, bytes, k) = byte_fold(s, bytes, k, 16)
                  /\ LET met == byte_fold(s, bytes, 0, k)
                     IN  table_block_step(met, bytes, k) = byte_fold(met, bytes, k, 16)
            /\ \A c \in 0..n :
                  table_update(table_update(s, SubSeq(bytes, 1, c)), SubSeq(bytes, c + 1, n))
                      = output[1].table

\* table::update was called on 37 bytes at an odd address from a state other
\* than all-ones: two blocks and five single bytes
C18_Witness ==
    /\ output # << >>
    /\ input[1].state = K_575
    /\ input[1].addr = 7 /\ Len(input[1].bytes) = 37
    /\ output[1].table = byte_fold(input[1].state, input[1].bytes, 0, 37)
    /\ output[1].table # byte_fold(input[1].state, input[1].bytes, 0, 32)

====
